---- MODULE Spec2Model ----
(***************************************************************************)
(* Model of src/main.py: the ETF holdings tracker.                         *)
(*                                                                         *)
(* A raw line is the sequence of cells csv.reader yields for it (the empty *)
(* line yields the empty sequence).  Python floats are written by their    *)
(* repr ("0.015", "nan"), None is written "None", shares are integers.     *)
(* Python indices are 0-based; At(s, i) reads s[i].                        *)
(***************************************************************************)
EXTENDS Integers, Sequences, FiniteSets, TLC

VARIABLES
    file,        \* state.json: <<>> when the file does not exist, <<document>> otherwise
    fileBefore,  \* state.json as it was when the last run of main() started
    lines,       \* the lines fetch_csv() returned to the last run
    parsed,      \* what parse_csv(lines) did in the last run
    alerts,      \* per ticker, what send_discord_alert did in the last run
    outcome,     \* how the last run of main() ended
    repeat,      \* the last run fetched the same lines as the run before it
    runs         \* the number of runs of main() so far

vars == <<file, fileBefore, lines, parsed, alerts, outcome, repeat, runs>>

(***************************************************************************)
(* Bounds of the model.                                                    *)
(***************************************************************************)
MaxRuns == 2     \* number of runs of main()
MaxPre == 11     \* longest preamble in front of the header line

(***************************************************************************)
(* Configuration of the program.                                           *)
(***************************************************************************)
TARGET_TICKERS == <<"MAPS", "GRWG">>

Tracked == {TARGET_TICKERS[i] : i \in 1..Len(TARGET_TICKERS)}

HeaderWindow == 10

DefaultFields == <<"date", "shares", "weighting">>

(***************************************************************************)
(* Python helpers.                                                         *)
(***************************************************************************)
At(s, i) == s[i + 1]

Min(a, b) == IF a < b THEN a ELSE b

\* next((i for i, h in enumerate(seq) if h in names), -1); also list.index
\* for a single name, where -1 stands for the ValueError.
IndexOf(seq, names) ==
    IF \E i \in 1..Len(seq) : seq[i] \in names
    THEN (CHOOSE i \in 1..Len(seq) :
            /\ seq[i] \in names
            /\ \A j \in 1..(i - 1) : seq[j] \notin names) - 1
    ELSE -1

\* str.strip() on the cells the feeds are made of
Strip(c) ==
    CASE c = " Shares " -> "Shares"
      [] c = " TICKER" -> "TICKER"
      [] c = "  " -> ""
      [] c = "1.20 " -> "1.20"
      [] OTHER -> c

\* str.upper() on the cells the feeds are made of
Upper(c) ==
    CASE c = "StockTicker" -> "STOCKTICKER"
      [] c = "Ticker" -> "TICKER"
      [] c = "Shares" -> "SHARES"
      [] c = "shares" -> "SHARES"
      [] c = "Date" -> "DATE"
      [] c = "Weightings" -> "WEIGHTINGS"
      [] c = "Weighting" -> "WEIGHTING"
      [] c = "Name" -> "NAME"
      [] c = "Fund Holdings" -> "FUND HOLDINGS"
      [] c = "Grwg" -> "GRWG"
      [] c = "maps" -> "MAPS"
      [] c = "Cash" -> "CASH"
      [] OTHER -> c

\* [c.strip() for c in next(csv.reader([line]))]
StripCols(line) == [i \in 1..Len(line) |-> Strip(line[i])]

UpperCols(cols) == [i \in 1..Len(cols) |-> Upper(cols[i])]

\* not line.strip()
IsBlank(line) == Len(line) = 0 \/ (Len(line) = 1 /\ Strip(line[1]) = "")

\* datetime.strptime(date_str, "%m/%d/%Y").strftime("%Y-%m-%d"), the string
\* kept as it is on ValueError
ConvertDate(s) ==
    CASE s = "01/02/2024" -> "2024-01-02"
      [] s = "01/05/2024" -> "2024-01-05"
      [] OTHER -> s

\* s.replace(',', '')
RemoveCommas(s) ==
    CASE s = "1,000" -> "1000"
      [] s = "2,000.7" -> "2000.7"
      [] OTHER -> s

\* int(float(s)); err is set on ValueError
IntOfFloat(s) ==
    CASE s = "1000" -> [err |-> FALSE, v |-> 1000]
      [] s = "2000.7" -> [err |-> FALSE, v |-> 2000]
      [] s = "2000" -> [err |-> FALSE, v |-> 2000]
      [] OTHER -> [err |-> TRUE, v |-> 0]

\* s.replace('%', '').strip()
RemovePercent(s) ==
    CASE s = "1.50%" -> "1.50"
      [] s = "1.20 %" -> "1.20 "
      [] OTHER -> s

\* float(s) / 100.0; "ValueError" when float(s) raises
FloatDiv100(s) ==
    CASE s = "1.50" -> "0.015"
      [] s = "1.20" -> "0.012"
      [] s = "NaN" -> "nan"
      [] OTHER -> "ValueError"

\* a != b on two floats: nan differs from everything, itself included
FloatNe(a, b) == a = "nan" \/ b = "nan" \/ a # b

(***************************************************************************)
(* parse_csv                                                               *)
(***************************************************************************)
\* has_ticker and has_shares of one line's uppercased columns
IsHeader(col_upper) ==
    /\ \E i \in 1..Len(col_upper) : col_upper[i] \in {"TICKER", "STOCKTICKER"}
    /\ \E i \in 1..Len(col_upper) : col_upper[i] = "SHARES"

\* FindHeader scanning every line instead of lines[:10]
FindHeaderAnyLine(ls) ==
    LET Q == {i \in 1..Len(ls) : IsHeader(UpperCols(StripCols(ls[i])))}
    IN  IF Q = {} THEN -1
        ELSE (CHOOSE i \in Q : \A j \in Q : i <= j) - 1

\* the header scan over lines[:10]: the index of the first header line, or -1
FindHeader(ls) ==
    LET n == Min(Len(ls), HeaderWindow)
        Q == {i \in 1..n : IsHeader(UpperCols(StripCols(ls[i])))}
    IN  IF Q = {} THEN -1
        ELSE (CHOOSE i \in Q : \A j \in Q : i <= j) - 1

\* the column indices resolved from the header
Columns(header) ==
    [date_col   |-> IndexOf(header, {"DATE"}),
     ticker_col |-> IndexOf(header, {"TICKER", "STOCKTICKER"}),
     shares_col |-> IndexOf(header, {"SHARES"}),
     weight_col |-> IndexOf(header, {"WEIGHTINGS", "WEIGHTING"})]

NoRecord == [date |-> "", shares |-> 0, weighting |-> "0.0"]

\* the record built for one row of a tracked ticker
ParseRow(cols, c, today) ==
    IF c.date_col # -1 /\ c.date_col >= Len(cols)
    THEN [err |-> "IndexError", rec |-> NoRecord]
    ELSE IF c.shares_col >= Len(cols)
    THEN [err |-> "IndexError", rec |-> NoRecord]
    ELSE
      LET date_str == IF c.date_col # -1 /\ At(cols, c.date_col) # ""
                      THEN At(cols, c.date_col) ELSE today
          shares == IntOfFloat(RemoveCommas(At(cols, c.shares_col)))
          weight == IF /\ c.weight_col # -1
                       /\ c.weight_col < Len(cols)
                       /\ At(cols, c.weight_col) # ""
                    THEN FloatDiv100(Strip(RemovePercent(At(cols, c.weight_col))))
                    ELSE "0.0"
      IN  IF shares.err
          THEN [err |-> "MalformedQuantity", rec |-> NoRecord]
          ELSE [err |-> "none",
                rec |-> [date |-> ConvertDate(date_str),
                         shares |-> shares.v,
                         weighting |-> IF weight = "ValueError" THEN "0.0" ELSE weight]]

\* d[k] = v on a dict
DictSet(d, k, v) == [x \in (DOMAIN d) \cup {k} |-> IF x = k THEN v ELSE d[x]]

\* the loop over lines[header_index + 1:], from the i-th line of ls on
RECURSIVE ParseRows(_, _, _, _, _)
ParseRows(ls, i, c, today, holdings) ==
    IF i > Len(ls) THEN [err |-> "none", holdings |-> holdings]
    ELSE IF IsBlank(ls[i]) THEN ParseRows(ls, i + 1, c, today, holdings)
    ELSE
      LET cols == StripCols(ls[i])
      IN  IF c.ticker_col >= Len(cols) THEN ParseRows(ls, i + 1, c, today, holdings)
          ELSE
            LET ticker == Upper(At(cols, c.ticker_col))
            IN  IF ticker \notin Tracked THEN ParseRows(ls, i + 1, c, today, holdings)
                ELSE
                  LET r == ParseRow(cols, c, today)
                  IN  IF r.err # "none"
                      THEN [err |-> r.err, holdings |-> holdings]
                      ELSE ParseRows(ls, i + 1, c, today,
                                     DictSet(holdings, ticker, r.rec))

\* parse_csv(lines): err names the exception raised ("none": it returned);
\* holdings is the dict built so far
parse_csv(ls, today) ==
    LET header_index == FindHeader(ls)
    IN  IF header_index = -1
        THEN [err |-> "HeaderNotFound", header_index |-> -1, holdings |-> <<>>]
        ELSE
          LET header == UpperCols(StripCols(At(ls, header_index)))
              r == ParseRows(ls, header_index + 2, Columns(header), today, <<>>)
          IN  [err |-> r.err, header_index |-> header_index, holdings |-> r.holdings]

(***************************************************************************)
(* load_state, save_state.  json.dump and json.load keep integers,         *)
(* strings, null and floats (nan included) as they are, so the file holds  *)
(* the document itself.                                                    *)
(***************************************************************************)
\* dict.get(key, default)
DictGet(d, k, default) == IF k \in DOMAIN d THEN d[k] ELSE default

load_state(f) ==
    IF f = <<>> THEN ("fields" :> DefaultFields) @@ ("data" :> <<>>)
    ELSE f[1]

save_state(state) == <<state>>

(***************************************************************************)
(* send_discord_alert: what the call did.  "reported": no webhook is set,  *)
(* the alert is only printed; "skipped": delta is 0; "sent", "rejected":   *)
(* the status code of the response; "raised": requests.post raised.        *)
(***************************************************************************)
send_discord_alert(webhook, current_data, previous_data, response) ==
    IF ~webhook THEN "reported"
    ELSE
      LET prev_shares == IF previous_data # <<>> THEN previous_data[1].shares ELSE 0
          delta == current_data.shares - prev_shares
      IN  IF delta = 0 THEN "skipped"
          ELSE IF response = "ConnectionError" THEN "raised"
          ELSE IF response \in {"200", "204"} THEN "sent"
          ELSE "rejected"

(***************************************************************************)
(* main                                                                    *)
(***************************************************************************)
\* current.get(field, None)
RecordGet(current, field) ==
    CASE field = "date" -> current.date
      [] field = "shares" -> current.shares
      [] field = "weighting" -> current.weighting
      [] OTHER -> "None"

\* Project leaving out the fields the record does not have
ProjectPresent(fields, current) ==
    LET present == SelectSeq(fields, LAMBDA f : f \in {"date", "shares", "weighting"})
    IN  [i \in 1..Len(present) |-> RecordGet(current, present[i])]

\* the record appended to a history: current projected through fields
Project(fields, current) == [i \in 1..Len(fields) |-> RecordGet(current, fields[i])]

\* AppendEntry keeping only the newest record in the last position
AppendEntryOverwrite(history, record) ==
    IF history = <<>> THEN <<record>>
    ELSE [history EXCEPT ![Len(history)] = record]

\* history.append(record)
AppendEntry(history, record) == Append(history, record)

\* previous_data of one ticker: <<>> for None, <<dict>> otherwise; err when
\* the last entry is too short for an index
Previous(fields, history) ==
    LET shares_idx == IndexOf(fields, {"shares"})
        weight_idx == IndexOf(fields, {"weighting"})
        date_idx == IndexOf(fields, {"date"})
    IN  IF history = <<>> THEN [err |-> FALSE, data |-> <<>>]
        ELSE
          LET last_entry == history[Len(history)]
          IN  IF \/ date_idx >= Len(last_entry)
                 \/ shares_idx >= Len(last_entry)
                 \/ weight_idx >= Len(last_entry)
              THEN [err |-> TRUE, data |-> <<>>]
              ELSE [err |-> FALSE,
                    data |-> <<[date |-> IF date_idx # -1
                                         THEN At(last_entry, date_idx) ELSE "",
                                shares |-> At(last_entry, shares_idx),
                                weighting |-> At(last_entry, weight_idx)]>>]

\* one iteration of the loop over TARGET_TICKERS; acc carries data, what
\* send_discord_alert did per ticker, and the exception raised so far
ProcessTicker(acc, ticker, fields, current_holdings, webhook, responses) ==
    IF acc.err # "none" THEN acc
    ELSE IF ticker \notin DOMAIN current_holdings THEN acc
    ELSE
      LET current == current_holdings[ticker]
          history == DictGet(acc.data, ticker, <<>>)
          prev == Previous(fields, history)
      IN  IF prev.err THEN [acc EXCEPT !.err = "IndexError"]
          ELSE
            LET previous_data == prev.data
                changed == /\ previous_data # <<>>
                           /\ current.shares # previous_data[1].shares
                alert == IF changed
                         THEN send_discord_alert(webhook, current, previous_data,
                                                 responses[ticker])
                         ELSE "none"
                update == \/ previous_data = <<>>
                          \/ current.shares # previous_data[1].shares
                          \/ FloatNe(current.weighting, previous_data[1].weighting)
            IN  IF alert = "raised"
                THEN [acc EXCEPT !.err = "DeliveryError",
                                 !.alerts = DictSet(acc.alerts, ticker, alert)]
                ELSE [err |-> "none",
                      alerts |-> DictSet(acc.alerts, ticker, alert),
                      data |-> IF update
                               THEN DictSet(acc.data, ticker,
                                            AppendEntry(history, Project(fields, current)))
                               ELSE acc.data]

\* the loop over TARGET_TICKERS, from the i-th ticker on
RECURSIVE ProcessTickers(_, _, _, _, _, _)
ProcessTickers(acc, i, fields, current_holdings, webhook, responses) ==
    IF i > Len(TARGET_TICKERS) THEN acc
    ELSE ProcessTickers(
           ProcessTicker(acc, TARGET_TICKERS[i], fields, current_holdings,
                         webhook, responses),
           i + 1, fields, current_holdings, webhook, responses)

NoAlerts == [t \in Tracked |-> "none"]

NotParsed == [err |-> "NotParsed", header_index |-> -1, holdings |-> <<>>]

\* Detect going on with the holdings built before parse_csv raised
DetectPartial(f, p, webhook, responses) ==
    LET state0 == load_state(f)
        state == IF "data" \in DOMAIN state0 THEN state0
                 ELSE state0 @@ ("data" :> <<>>)
        fields == DictGet(state, "fields", DefaultFields)
        r == ProcessTickers([err |-> "none", alerts |-> NoAlerts,
                             data |-> state["data"]],
                            1, fields, p.holdings, webhook, responses)
    IN  IF r.err # "none"
        THEN [file |-> f, alerts |-> r.alerts, outcome |-> r.err]
        ELSE [file |-> save_state([state EXCEPT !["data"] = r.data]),
              alerts |-> r.alerts,
              outcome |-> IF p.err # "none" THEN p.err ELSE "ok"]

\* main() from the parsed holdings on: the file it leaves, the alerts and
\* the way it ended
Detect(f, p, webhook, responses) ==
    IF p.err # "none"
    THEN [file |-> f, alerts |-> NoAlerts, outcome |-> p.err]
    ELSE
      LET state0 == load_state(f)
          state == IF "data" \in DOMAIN state0 THEN state0
                   ELSE state0 @@ ("data" :> <<>>)
          fields == DictGet(state, "fields", DefaultFields)
      IN  IF IndexOf(fields, {"shares"}) = -1 \/ IndexOf(fields, {"weighting"}) = -1
          THEN [file |-> f, alerts |-> NoAlerts, outcome |-> "ValueError"]
          ELSE
            LET r == ProcessTickers([err |-> "none", alerts |-> NoAlerts,
                                     data |-> state["data"]],
                                    1, fields, p.holdings, webhook, responses)
            IN  IF r.err # "none"
                THEN [file |-> f, alerts |-> r.alerts, outcome |-> r.err]
                ELSE [file |-> save_state([state EXCEPT !["data"] = r.data]),
                      alerts |-> r.alerts, outcome |-> "ok"]

(***************************************************************************)
(* The inputs of a run.                                                    *)
(***************************************************************************)
Header1 == <<"Date", "StockTicker", " Shares ", "Weightings">>

CashRow == <<"01/02/2024", "Cash", "1,000", "n/a">>

GrwgRows ==
    {<<>>} \cup {<< <<"", "Grwg", s, "1.50%">> >> : s \in {"1,000", "2,000.7"}}

MapsRows ==
    {<<>>, << <<"01/02/2024", "MAPS", "N/A", "1.50%">> >>, << <<"01/02/2024", "MAPS">> >>}
    \cup {<< <<"01/02/2024", "MAPS", "1,000", w>> >> : w \in {"1.50%", "1.20 %", "NaN"}}
    \cup {<< <<"01/02/2024", "MAPS", "2,000.7", "1.50%">> >>}

NoHeaderFeed ==
    << <<"Fund Holdings">>, <<"Ticker", "Name">>, <<"01/02/2024", "MAPS", "1,000", "1.50%">> >>

\* the tables main() is run on
RunFeeds ==
    {NoHeaderFeed} \cup
    {<< <<"Fund Holdings">>, <<>>, Header1, CashRow >> \o g \o m :
        g \in GrwgRows, m \in MapsRows}

PreKinds == {<<"Fund Holdings">>, <<>>, <<"  ">>, <<"Ticker", "Name">>}

HeaderVariants ==
    {<<>>, <<Header1>>, << <<"StockTicker", "Shares">> >>,
     << <<" TICKER", "Name", "shares", "Weighting">> >>}

\* the tables parse_csv is tried on: a preamble of n lines, possibly a
\* header, a row, and a second header line
ParseFeeds ==
    {[i \in 1..n |-> IF i % 2 = 1 THEN k1 ELSE k2] \o h
        \o << <<"01/02/2024", "maps", "2,000.7", "1.50%">>, Header1 >> :
        n \in 0..MaxPre, k1 \in PreKinds, k2 \in PreKinds, h \in HeaderVariants}

Todays == {"2024-01-03"}

Responses == {"204", "500", "ConnectionError"}

\* DISCORD_WEBHOOK_URL and the transport, as one run finds them
Transports ==
    {[webhook |-> FALSE, responses |-> [t \in Tracked |-> "204"]]}
    \cup {[webhook |-> TRUE, responses |-> r] : r \in [Tracked -> Responses]}

FieldOrders == {DefaultFields, <<"weighting", "note", "shares">>}

\* the state.json files a first run can find
InitFiles ==
    {<<>>, << <<>> >>}
    \cup {<< ("fields" :> f) @@ ("data" :> <<>>) >> : f \in FieldOrders}

\* the history of a ticker in a state.json file
History(f, t) == DictGet(DictGet(load_state(f), "data", <<>>), t, <<>>)

\* the fields main() decodes a state.json file with
FieldsOf(f) == DictGet(load_state(f), "fields", DefaultFields)

(***************************************************************************)
(* The state machine.                                                      *)
(***************************************************************************)
Init ==
    /\ file \in InitFiles
    /\ fileBefore = file
    /\ lines = <<>>
    /\ parsed = NotParsed
    /\ alerts = NoAlerts
    /\ outcome = "init"
    /\ repeat = FALSE
    /\ runs = 0

\* one run of main()
main ==
    /\ runs < MaxRuns
    /\ runs' = runs + 1
    /\ fileBefore' = file
    /\ \/ \* fetch_csv raises
          /\ lines' = <<>>
          /\ parsed' = NotParsed
          /\ outcome' = "FetchError"
          /\ alerts' = NoAlerts
          /\ repeat' = FALSE
          /\ file' = file
       \/ \E ls \in RunFeeds, today \in Todays :
            LET p == parse_csv(ls, today)
            IN  /\ lines' = ls
                /\ parsed' = p
                /\ repeat' = (outcome \notin {"init", "FetchError"} /\ ls = lines)
                /\ \E tr \in Transports :
                     LET r == Detect(file, p, tr.webhook, tr.responses)
                     IN  /\ file' = r.file
                         /\ alerts' = r.alerts
                         /\ outcome' = r.outcome

Next == main

Spec == Init /\ [][Next]_vars

\* parse_csv on its own, on every table of ParseFeeds
InitParse ==
    /\ lines \in ParseFeeds
    /\ parsed = NotParsed
    /\ file = <<>>
    /\ fileBefore = <<>>
    /\ alerts = NoAlerts
    /\ outcome = "init"
    /\ repeat = FALSE
    /\ runs = 0

ParseStep ==
    /\ parsed = NotParsed
    /\ \E today \in Todays : parsed' = parse_csv(lines, today)
    /\ UNCHANGED <<file, fileBefore, lines, alerts, outcome, repeat, runs>>

NextParse == ParseStep

SpecParse == InitParse /\ [][NextParse]_vars

(***************************************************************************)
(* What the claims speak of.                                               *)
(***************************************************************************)
\* parse_csv returned and the table has a row for the ticker
HasCurrent(t) == parsed.err = "none" /\ t \in DOMAIN parsed.holdings

\* send_discord_alert was invoked for the ticker in the last run
Notified(t) == alerts[t] # "none"

\* latest(t) before and after the last run: <<>> when absent
PreviousOf(t) == Previous(FieldsOf(fileBefore), History(fileBefore, t)).data

LatestOf(t) == Previous(FieldsOf(file), History(file, t)).data

\* the last run appended an entry to the history of the ticker
Appended(t) == Len(History(file, t)) = Len(History(fileBefore, t)) + 1

\* the stored state of the ticker is the current record
Persisted(t) ==
    /\ LatestOf(t) # <<>>
    /\ LatestOf(t)[1].shares = parsed.holdings[t].shares
    /\ LatestOf(t)[1].weighting = parsed.holdings[t].weighting

\* C1: a second run on the identical table, when the table parses, invokes
\* no notification and leaves every history as the first run left it.
Idempotence ==
    (repeat /\ parsed.err = "none") =>
        /\ \A t \in Tracked : ~Notified(t)
        /\ \A t \in Tracked : History(file, t) = History(fileBefore, t)

\* C2: when the delivery for one ticker is rejected or raises, the run is
\* not aborted and the state of every ticker of the table is persisted.
DeliveryFailureIsolation ==
    (\E t \in Tracked : alerts[t] \in {"rejected", "raised"}) =>
        /\ outcome = "ok"
        /\ \A u \in DOMAIN parsed.holdings : Persisted(u)

\* C3: a ticker with a current record and no history is not notified and
\* its current record becomes its latest stored record.
FirstObservation ==
    \A t \in Tracked :
        (HasCurrent(t) /\ History(fileBefore, t) = <<>>) =>
            /\ ~Notified(t)
            /\ Appended(t)
            /\ Persisted(t)

\* C4: a ticker is notified exactly when it has a previous record and its
\* current shares differ from the previous shares.
NotificationCondition ==
    \A t \in Tracked :
        Notified(t) <=>
            /\ HasCurrent(t)
            /\ PreviousOf(t) # <<>>
            /\ parsed.holdings[t].shares # PreviousOf(t)[1].shares

\* C5: for a ticker with a current and a previous record, an entry is
\* appended exactly when shares or weighting differ; otherwise its history
\* is unchanged.
HistoryUpdateCondition ==
    \A t \in Tracked :
        (HasCurrent(t) /\ PreviousOf(t) # <<>>) =>
            LET differs ==
                  \/ parsed.holdings[t].shares # PreviousOf(t)[1].shares
                  \/ FloatNe(parsed.holdings[t].weighting, PreviousOf(t)[1].weighting)
            IN  /\ Appended(t) <=> differs
                /\ ~differs => History(file, t) = History(fileBefore, t)

\* C6: the history of every ticker before a run is a prefix of its history
\* after the run, which is at most one entry longer.
AppendOnly ==
    \A t \in Tracked :
        LET before == History(fileBefore, t)
            after == History(file, t)
        IN  /\ Len(before) <= Len(after)
            /\ Len(after) <= Len(before) + 1
            /\ SubSeq(after, 1, Len(before)) = before

AppendOnlyWitness ==
    \E t \in Tracked :
        /\ Len(History(fileBefore, t)) = 1
        /\ Len(History(file, t)) = 2

\* C7: a run that fails with HeaderNotFound or MalformedQuantity leaves
\* state.json as it was and notifies nobody.
FatalParseErrorsLeaveState ==
    outcome \in {"HeaderNotFound", "MalformedQuantity"} =>
        /\ file = fileBefore
        /\ \A t \in Tracked : ~Notified(t)

\* a malformed MAPS row after a GRWG row whose shares differ from the stored ones
FatalParseErrorsWitness ==
    /\ outcome = "MalformedQuantity"
    /\ "GRWG" \in DOMAIN parsed.holdings
    /\ PreviousOf("GRWG") # <<>>
    /\ PreviousOf("GRWG")[1].shares # parsed.holdings["GRWG"].shares

\* C8: a ticker without a row in the parsed table keeps its history and is
\* not notified; the run ends normally and the tickers of the table are
\* persisted.
MissingIdentifierSkipped ==
    \A t \in Tracked :
        (parsed.err = "none" /\ t \notin DOMAIN parsed.holdings) =>
            /\ History(file, t) = History(fileBefore, t)
            /\ ~Notified(t)
            /\ outcome = "ok"
            /\ \A u \in DOMAIN parsed.holdings : Persisted(u)

\* a line whose uppercased fields hold TICKER or STOCKTICKER, and SHARES
Qualifies(line) ==
    /\ \E i \in 1..Len(line) : Upper(Strip(line[i])) \in {"TICKER", "STOCKTICKER"}
    /\ \E i \in 1..Len(line) : Upper(Strip(line[i])) = "SHARES"

\* C9: parse_csv takes as header the first qualifying line among the first
\* 10 lines, and fails with HeaderNotFound when none of them qualifies.
HeaderLocation ==
    parsed # NotParsed =>
        LET Q == {i \in 1..Len(lines) : i <= 10 /\ Qualifies(lines[i])}
        IN  IF Q = {} THEN parsed.err = "HeaderNotFound"
            ELSE /\ parsed.err # "HeaderNotFound"
                 /\ parsed.header_index + 1 \in Q
                 /\ \A j \in Q : parsed.header_index + 1 <= j

\* the first qualifying line is the 11th or a later one
HeaderLocationWitness ==
    /\ parsed.err = "HeaderNotFound"
    /\ \E i \in 11..Len(lines) : Qualifies(lines[i])
    /\ lines[1] = <<"Fund Holdings">>
    /\ lines[2] = <<>>

\* C10: an appended entry has one position per field, holding the current
\* record's value of that field or None, and decodes through the same
\* fields to the shares and weighting of the current record.
PositionalRoundTrip ==
    \A t \in Tracked :
        Appended(t) =>
            LET fields == FieldsOf(file)
                entry == History(file, t)[Len(History(file, t))]
                current == parsed.holdings[t]
            IN  /\ Len(entry) = Len(fields)
                /\ \A i \in 1..Len(fields) :
                     entry[i] = CASE fields[i] = "date" -> current.date
                                  [] fields[i] = "shares" -> current.shares
                                  [] fields[i] = "weighting" -> current.weighting
                                  [] OTHER -> "None"
                /\ Persisted(t)

\* a second run decoded and appended under a reordered schema with an extra field
PositionalRoundTripWitness ==
    /\ FieldsOf(file) = <<"weighting", "note", "shares">>
    /\ \E t \in Tracked :
         /\ Appended(t)
         /\ Len(History(file, t)) = 2
         /\ PreviousOf(t)[1].shares # LatestOf(t)[1].shares

(***************************************************************************)
(* The runs in which requests.post does not raise.  There the properties   *)
(* of C2, C3, C4, C5 and C8 hold; they are checked to locate the failures  *)
(* of those properties in the uncaught exception of the delivery.          *)
(***************************************************************************)
NoRaise == outcome # "DeliveryError"

RejectionIsolated ==
    (NoRaise /\ \E t \in Tracked : alerts[t] = "rejected") =>
        /\ outcome = "ok"
        /\ \A u \in DOMAIN parsed.holdings : Persisted(u)

FirstObservationNoRaise == NoRaise => FirstObservation

NotificationConditionNoRaise == NoRaise => NotificationCondition

HistoryUpdateConditionNoRaise == NoRaise => HistoryUpdateCondition

MissingIdentifierSkippedNoRaise == NoRaise => MissingIdentifierSkipped

\* a repeated run appends only for a ticker whose weighting is nan, and
\* notifies only a ticker whose stored shares are not the current ones
IdempotenceButNan ==
    (repeat /\ parsed.err = "none" /\ outcome = "ok") =>
        \A t \in Tracked :
            /\ History(file, t) # History(fileBefore, t) =>
                 \/ parsed.holdings[t].weighting = "nan"
                 \/ Notified(t)
            /\ Notified(t) =>
                 PreviousOf(t)[1].shares # parsed.holdings[t].shares

====
